---- MODULE Spec2Model ----
(***************************************************************************)
(* Timelapse encoding pipeline of turtletimelapse.                         *)
(*                                                                         *)
(* The model covers the three layers a build request passes through:       *)
(*   - BuildScreen.buildVideo            (src/app/_layout.tsx)             *)
(*   - buildTimelapse                    (src/unnamed/part_000)            *)
(*   - TimelapseBuilderModule.build      (TimelapseBuilderModule.kt)       *)
(* together with the session directory they work on and the platform       *)
(* objects (encoder, input surface, muxer) the native build drives.        *)
(* The platform is the environment: every platform call that can throw     *)
(* does so nondeterministically, and the encoder answers each output poll  *)
(* with any result MediaCodec can give.                                    *)
(***************************************************************************)
EXTENDS Integers, Sequences, FiniteSets, TLC

\* ------------------------------------------------------------------ bounds
MaxBuilds == 2      \* sequential build calls followed in one behaviour
MaxFrames == 2      \* matching frame files in the session directory

\* --------------------------------------------------------------- utilities
Max2(a, b) == IF a >= b THEN a ELSE b
Min2(a, b) == IF a <= b THEN a ELSE b

\* An option that may be missing is << >> or <<value>>.
Absent == << >>
Some(v) == <<v>>
Val(o) == o[1]

\* File names are strings: sequences of character codes.
ChImg == <<105, 109, 103, 95>>          \* "img_"
ChPic == <<112, 105, 99, 95>>           \* "pic_"
ChJpg == <<46, 106, 112, 103>>          \* ".jpg"
ChPng == <<46, 112, 110, 103>>          \* ".png"
Digit(d) == 48 + d

StartsWith(s, p) == Len(s) >= Len(p) /\ SubSeq(s, 1, Len(p)) = p
EndsWith(s, p) == Len(s) >= Len(p) /\ SubSeq(s, Len(s) - Len(p) + 1, Len(s)) = p

\* String.compareTo(a, b) < 0 : lexicographic on character codes, a proper
\* prefix sorting first.
RECURSIVE LexLess(_, _)
LexLess(a, b) ==
    IF b = << >> THEN FALSE
    ELSE IF a = << >> THEN TRUE
    ELSE IF Head(a) # Head(b) THEN Head(a) < Head(b)
    ELSE LexLess(Tail(a), Tail(b))

\* The names a session directory can hold in the model.
N1   == ChImg \o <<Digit(1)>> \o ChJpg              \* img_1.jpg
N2   == ChImg \o <<Digit(2)>> \o ChJpg              \* img_2.jpg
N10  == ChImg \o <<Digit(1), Digit(0)>> \o ChJpg    \* img_10.jpg
NPng == ChImg \o <<Digit(1)>> \o ChPng              \* img_1.png
NPic == ChPic \o <<Digit(1)>> \o ChJpg              \* pic_1.jpg
FrameNames == {N1, N2, N10}
OtherNames == {NPng, NPic}

\* f.name.startsWith("img_") && f.name.endsWith(".jpg")
IsFrameName(n) == StartsWith(n, ChImg) /\ EndsWith(n, ChJpg)

\* listFiles(filter)
ListFrames(names) == {n \in names : IsFrameName(n)}

\* An order listFiles may hand the files out in (the platform gives none).
ListedOrder(S) ==
    CHOOSE s \in [1..Cardinality(S) -> S] :
        /\ \A i, j \in 1..Cardinality(S) : i # j => s[i] # s[j]
        /\ \A i, j \in 1..Cardinality(S) : i < j => LexLess(s[j], s[i])

\* sortedBy { it.name }
SortedByName(S) ==
    CHOOSE s \in [1..Cardinality(S) -> S] :
        /\ \A i, j \in 1..Cardinality(S) : i # j => s[i] # s[j]
        /\ \A i, j \in 1..Cardinality(S) : i < j => LexLess(s[i], s[j])

\* ------------------------------------------------------------ frame rates
\* JavaScript numbers are kept in tenths, so that Math.floor has work to do;
\* the native side receives whole numbers.
Tenths(n) == n * 10
\* x || 30
JsOr30(x) == IF x = Absent \/ Val(x) = 0 THEN Tenths(30) ELSE Val(x)
\* Math.floor, result in whole units
JsFloor(x) == x \div 10
\* Math.max(1, Math.min(120, n))
ClampFps(n) == Max2(1, Min2(120, n))

\* Number(fps) of the text field: "" converts to 0.
ScreenNumber(text) == IF text = Absent THEN Some(0) ELSE Some(Tenths(Val(text)))
\* _layout.tsx: Math.max(1, Math.min(120, Math.floor(Number(fps) || 30)))
ScreenFps(text) == ClampFps(JsFloor(JsOr30(ScreenNumber(text))))
\* timelapse.ts: Math.max(1, Math.min(120, Math.floor(opts.fps || 30)))
WrapperFps(x) == ClampFps(JsFloor(JsOr30(x)))
\* kotlin: max(1, min(120, if (options.hasKey("fps")) options.getInt("fps") else 30))
NativeFps(x) == ClampFps(IF x = Absent THEN 30 ELSE Val(x))

\* -------------------------------------------------------------- negotiation
\* private fun mul16(x: Int) = (x / 16) * 16
Mul16Up(x) == ((x + 15) \div 16) * 16
Mul16(x) == (x \div 16) * 16

\* Float.roundToInt() of the quotient n/d of two non-negative integers:
\* to the nearest integer, a tie going up. The float arithmetic of the source
\* is taken as exact.
RoundDiv(n, d) == (2 * n + d) \div (2 * d)

\* val MAX = 1920f
MAX == 1920

\* private fun capTo1080(w: Int, h: Int): Pair<Int, Int>
CapTo1080(w, h) ==
    LET longEdge  == Max2(w, h)
        shortEdge == Min2(w, h)
    IN  IF longEdge <= MAX
        THEN [w |-> w, h |-> h]
        ELSE LET newLong  == RoundDiv(longEdge * MAX, longEdge)
                 newShort == RoundDiv(shortEdge * MAX, longEdge)
             IN  IF w >= h THEN [w |-> newLong, h |-> newShort]
                 ELSE [w |-> newShort, h |-> newLong]

\* What the device declares: no usable capability query (SDK < 21 or
\* findEncoderForFormat found nothing), or the ranges of VideoCapabilities:
\* widths 1..maxW, heights 1..maxH, frame rates 1..maxFps.
NoCaps == [query |-> FALSE, maxW |-> 0, maxH |-> 0, maxFps |-> 0]
CapsOf(mw, mh, mf) == [query |-> TRUE, maxW |-> mw, maxH |-> mh, maxFps |-> mf]

\* vc.isSizeSupported(w, h)
IsSizeSupported(caps, w, h) ==
    w >= 1 /\ w <= caps.maxW /\ h >= 1 /\ h <= caps.maxH

\* fun supported(w: Int, h: Int, fps: Int): Boolean
Supported(caps, w, h, fps) ==
    IF ~IsSizeSupported(caps, w, h) THEN FALSE
    ELSE fps >= 1 /\ fps <= caps.maxFps

\* listOf(requestFps, 30, 24, 15).distinct()
RECURSIVE Distinct(_)
Distinct(q) ==
    IF q = << >> THEN << >>
    ELSE LET init == Distinct(SubSeq(q, 1, Len(q) - 1))
             last == q[Len(q)]
         IN  IF \E i \in 1..Len(init) : init[i] = last THEN init ELSE Append(init, last)
FpsCandidates(requestFps) == Distinct(<<requestFps, 30, 24, 15>>)

\* for (fps in fpsCandidates) { if (supported(tryW, tryH, fps)) return ... }:
\* the index of the first supported candidate, 0 when there is none
LastSupported(caps, tryW, tryH, cands) ==
    LET ok == {i \in 1..Len(cands) : Supported(caps, tryW, tryH, cands[i])}
    IN  IF ok = {} THEN 0 ELSE CHOOSE i \in ok : \A j \in ok : i >= j
FirstSupported(caps, tryW, tryH, cands) ==
    LET ok == {i \in 1..Len(cands) : Supported(caps, tryW, tryH, cands[i])}
    IN  IF ok = {} THEN 0 ELSE CHOOSE i \in ok : \A j \in ok : i <= j

Negotiated(w, h, fps, path) == [width |-> w, height |-> h, fps |-> fps, path |-> path]

\* (longEdge * 0.9).roundToInt()
Shrink09(x) == RoundDiv(9 * x, 10)

\* return Negotiated(max(16, mul16(w)), max(16, mul16(h)), 15)
LastResortDimNoFloor(x) == Mul16(x)
LastResortDim(x) == Max2(16, Mul16(x))

\* the size the shrink loop tests:
\* supported(max(longEdge, shortEdge), min(longEdge, shortEdge), tryFps)
ShrinkProbe(longEdge, shortEdge, tryW, tryH) ==
    [w |-> Max2(longEdge, shortEdge), h |-> Min2(longEdge, shortEdge)]

\* while (longEdge >= 640) { ... } and the return after it
RECURSIVE ShrinkLoop(_, _, _, _, _)
ShrinkLoop(caps, longEdge, shortEdge, tryW, tryH) ==
    LET w == IF tryW >= tryH THEN longEdge ELSE shortEdge
        h == IF tryW >= tryH THEN shortEdge ELSE longEdge
        probe == ShrinkProbe(longEdge, shortEdge, tryW, tryH)
    IN  IF longEdge >= 640
        THEN IF Supported(caps, probe.w, probe.h, 15)
             THEN Negotiated(Mul16(w), Mul16(h), 15, "shrink")
             ELSE ShrinkLoop(caps, Mul16(Shrink09(longEdge)), Mul16(Shrink09(shortEdge)),
                             tryW, tryH)
        ELSE Negotiated(LastResortDim(w), LastResortDim(h), 15, "lastResort")

\* private fun negotiateSizeFps(requestW: Int, requestH: Int, requestFps: Int)
NegotiateSizeFps(requestW, requestH, requestFps, caps) ==
    IF ~caps.query
    THEN LET c == CapTo1080(requestW, requestH)
         IN  Negotiated(Mul16(Max2(16, c.w)), Mul16(Max2(16, c.h)), requestFps, "noCaps")
    ELSE
    LET tryW  == Mul16(Max2(16, requestW))
        tryH  == Mul16(Max2(16, requestH))
        cands == FpsCandidates(requestFps)
        fast  == FirstSupported(caps, tryW, tryH, cands)
        c     == CapTo1080(tryW, tryH)
        capW  == Mul16(Max2(16, c.w))
        capH  == Mul16(Max2(16, c.h))
        cap   == FirstSupported(caps, capW, capH, cands)
    IN  IF fast # 0 THEN Negotiated(tryW, tryH, cands[fast], "fast")
        ELSE IF cap # 0 THEN Negotiated(capW, capH, cands[cap], "capped")
        ELSE ShrinkLoop(caps, Max2(capW, capH), Min2(capW, capH), capW, capH)

\* ------------------------------------------------------------------- state
VARIABLES
    \* the session directory
    dirKind,        \* what is at the path: "missing", "file" or "dir"
    files,          \* names of the files in the directory (output file apart)
    corrupt,        \* the files BitmapFactory.decodeFile returns null for
    outFile,        \* the file at <dir>/<outFileName>: [exists, by, valid]
    \* the call in progress
    builds,         \* build calls finished so far
    caller,         \* layer the request entered at: "native", "wrapper", "screen"
    pc,             \* position of the call
    fpsArg,         \* the fps the caller supplied (tenths, or Absent)
    optsFps,        \* the fps option as handed to the next layer
    dirGiven,       \* options carry a "dir"
    \* BuildScreen state
    frameCount, building,
    \* locals of TimelapseBuilderModule.build
    reqFps, frames, idx, codec, inputSurface, muxer, muxerStarted, endOfStream,
    \* the platform
    live,           \* handles created and not yet released, per kind
    encQueue,       \* frames the encoder holds and has not emitted yet
    eosSignalled,   \* signalEndOfInputStream calls of this build
    encDropped,     \* frames the encoder's rate control dropped in this build
    muxState,       \* "none", "created", "started", "stopped", "released"
    \* the promise of the native call
    settled, errCode, errMsg, resolveCalls, rejectCalls,
    \* history of the call in progress
    hist,
    \* size inference, negotiation and compositing of one build, followed on
    \* their own over a wide range of frame sizes and devices
    sizing,
    \* the capture loop's frame numbering
    capture,
    \* the capture screen: refs, state and the startCapture calls in progress
    cam,
    \* the build screen: state and the buildVideo calls in progress
    bs

dirVars    == <<dirKind, files, corrupt>>
callVars   == <<caller, fpsArg, optsFps, dirGiven>>
screenVars == <<frameCount, building>>
localVars  == <<reqFps, frames, idx, codec, inputSurface, muxer, muxerStarted, endOfStream>>
encVars    == <<encQueue, eosSignalled, encDropped>>
promVars   == <<settled, errCode, errMsg, resolveCalls, rejectCalls>>
uiVars     == <<cam, bs>>
pureVars   == <<sizing, capture, uiVars>>
vars == <<dirVars, outFile, builds, callVars, pc, screenVars, localVars,
          live, encVars, muxState, promVars, hist, pureVars>>

Callers == {"native", "wrapper", "screen"}

\* fps values a caller can supply, per layer.
NativeFpsArgs  == {Absent, Some(0), Some(30), Some(500)}
WrapperFpsArgs == {Absent, Some(0), Some(5), Some(Tenths(30)), Some(Tenths(500))}
ScreenFpsArgs  == {Absent, Some(0), Some(30), Some(500)}        \* digits typed into the field
FpsArgs(c) == IF c = "native" THEN NativeFpsArgs
              ELSE IF c = "wrapper" THEN WrapperFpsArgs ELSE ScreenFpsArgs

\* No file at the output path / a file written by build number b (0: a file
\* that was there before the first build), a valid container or not.
NoFile == [exists |-> FALSE, by |-> 0, valid |-> FALSE]
FileBy(b, v) == [exists |-> TRUE, by |-> b, valid |-> v]

\* What the call in progress has done so far:
\*   rendered    frames posted to the input surface, in order
\*   written     frames whose sample went to muxer.writeSampleData, in order
\*   skipped     frames the loop passed over because decoding failed
\*   fmt         INFO_OUTPUT_FORMAT_CHANGED results dequeued
\*   early       non-empty buffers dequeued while the muxer was not started
\*   addTrack, start   calls of muxer.addTrack / muxer.start that were made
\*   badWrites   writeSampleData calls outside start()..stop()
\*   rel         order in which the teardown released the handles
\*   made        kinds of handle this call created
\*   outAtInvoke the output file as the call found it
NoHist == [rendered |-> << >>, written |-> << >>, skipped |-> 0,
           fmt |-> 0, early |-> 0,
           addTrack |-> 0, start |-> 0, badWrites |-> 0, eos |-> 0, rel |-> << >>,
           made |-> {}, outAtInvoke |-> NoFile]

\* useEffect of BuildScreen: count the img_*.jpg files of the directory; a
\* failing list() leaves the count at 0.
CountFrames == IF dirKind = "dir" THEN Cardinality(ListFrames(files)) ELSE 0

BuildInit ==
    /\ dirKind \in {"missing", "file", "dir"}
    /\ files \in SUBSET (FrameNames \cup OtherNames)
    /\ Cardinality(ListFrames(files)) <= MaxFrames
    /\ Cardinality(files \ ListFrames(files)) <= 1
    /\ dirKind # "dir" => files = {}
    /\ corrupt \in SUBSET ListFrames(files)
    /\ outFile \in {NoFile, FileBy(0, TRUE)}
    /\ dirKind # "dir" => outFile = NoFile
    /\ builds = 0
    /\ caller = "none" /\ pc = "idle"
    /\ fpsArg = Absent /\ optsFps = Absent /\ dirGiven = TRUE
    /\ frameCount = CountFrames /\ building = FALSE
    /\ reqFps = 0 /\ frames = << >> /\ idx = 0
    /\ codec = "null" /\ inputSurface = "null" /\ muxer = "null"
    /\ muxerStarted = FALSE /\ endOfStream = FALSE
    /\ live = [codec |-> 0, surface |-> 0, muxer |-> 0]
    /\ encQueue = << >> /\ eosSignalled = 0 /\ encDropped = 0
    /\ muxState = "none"
    /\ settled = "none" /\ errCode = "" /\ errMsg = ""
    /\ resolveCalls = 0 /\ rejectCalls = 0
    /\ hist = NoHist

\* sizing and capture at rest
NoSizing == [pc |-> "off", width |-> Absent, height |-> Absent,
             firstW |-> 0, firstH |-> 0, reqFps |-> 0, caps |-> NoCaps,
             reqW |-> 0, reqH |-> 0, neg |-> Negotiated(0, 0, 0, "none"),
             bitrate |-> 0, bmpW |-> 0, bmpH |-> 0, canvasOps |-> << >>,
             dst |-> [left |-> 0, top |-> 0, right |-> 0, bottom |-> 0, unit |-> 1]]
NoCapture == [pc |-> "off", frameIndex |-> 0, start |-> 0, written |-> << >>]

\* the two screens at rest: no tap yet, refs and state at their initial values
MaxTaps == 2        \* Start taps, and Build taps, followed in one behaviour
MaxPics == 2        \* frame files written in one behaviour
NoCall == [pc |-> "none", reqDir |-> 0, dir |-> 0, shot |-> 0]
NoCam == [granted |-> FALSE, runningRef |-> FALSE, isRunning |-> FALSE,
          sessionDirRef |-> 0, timerRef |-> 0, frameIndexRef |-> 0,
          taps |-> 0, sinceStop |-> FALSE,
          calls |-> [k \in 1..MaxTaps |-> NoCall], written |-> << >>]
NoBs == [frameCount |-> 0, building |-> FALSE, disabled |-> FALSE, taps |-> 0,
         calls |-> [k \in 1..MaxTaps |-> "none"]]

Init ==
    /\ BuildInit
    /\ sizing = NoSizing
    /\ capture = NoCapture
    /\ cam = NoCam /\ bs = NoBs

\* ------------------------------------------------------------- the promise
RejectAndGoOn(code, msg) ==
    /\ settled' = "rejected" /\ errCode' = code /\ errMsg' = msg
    /\ rejectCalls' = rejectCalls + 1
    /\ UNCHANGED <<resolveCalls, pc>>
Reject(code, msg) ==
    /\ settled' = "rejected" /\ errCode' = code /\ errMsg' = msg
    /\ rejectCalls' = rejectCalls + 1
    /\ UNCHANGED resolveCalls
    /\ pc' = "settled"

\* catch (e: MediaCodec.CodecException) / catch (e: Throwable) of build
CatchCodec == Reject("E_CODEC", "CodecException")
CatchThrowable(msg) == Reject("E_EXC", msg)

\* --------------------------------------------------------------- invocation
\* A caller starts a build: a tap on Build, a call of buildTimelapse, or a
\* call of the native method.
Invoke(c, fa, dg) ==
    /\ pc = "idle" /\ builds < MaxBuilds
    /\ caller' = c /\ fpsArg' = fa /\ dirGiven' = dg
    /\ optsFps' = fa
    /\ pc' = IF c = "screen" THEN "bv_entry"
             ELSE IF c = "wrapper" THEN "bt_entry" ELSE "n_args"
    \* var codec = null; var muxer = null; var inputSurface = null
    /\ reqFps' = 0 /\ frames' = << >> /\ idx' = 0
    /\ codec' = "null" /\ inputSurface' = "null" /\ muxer' = "null"
    /\ muxerStarted' = FALSE /\ endOfStream' = FALSE
    /\ encQueue' = << >> /\ eosSignalled' = 0 /\ encDropped' = 0
    /\ muxState' = "none"
    /\ settled' = "pending" /\ errCode' = "" /\ errMsg' = ""
    /\ resolveCalls' = 0 /\ rejectCalls' = 0
    /\ hist' = [NoHist EXCEPT !.outAtInvoke = outFile]
    /\ UNCHANGED <<pureVars, dirVars, outFile, builds, screenVars, live>>

\* ------------------------------------------------ BuildScreen.buildVideo
\* if (!frameCount) return Alert.alert("No frames", ...); the sessionDir test
\* before it never fails, sessionDir being at least "/".
BvEntry ==
    /\ pc = "bv_entry"
    /\ IF frameCount = 0
       THEN /\ settled' = "alert" /\ errCode' = "JS_ALERT"
            /\ errMsg' = "This session has 0 frames."
            /\ pc' = "js_return"
            /\ UNCHANGED optsFps
       ELSE /\ optsFps' = Some(Tenths(ScreenFps(fpsArg)))
            /\ pc' = "bv_delete"
            /\ UNCHANGED <<settled, errCode, errMsg>>
    /\ UNCHANGED <<pureVars, dirVars, outFile, builds, caller, fpsArg, dirGiven, screenVars,
                   localVars, live, encVars, muxState, resolveCalls, rejectCalls, hist>>

\* try { await new File(outputUri).delete() } catch { }
BvDelete ==
    /\ pc = "bv_delete"
    /\ outFile' = NoFile
    /\ pc' = "bv_call"
    /\ UNCHANGED <<pureVars, dirVars, builds, callVars, screenVars, localVars, live,
                   encVars, muxState, promVars, hist>>

\* setBuilding(true); await buildTimelapse({dir, fps: FPS, outFileName})
BvCall ==
    /\ pc = "bv_call"
    /\ building' = TRUE
    /\ pc' = "bt_entry"
    /\ UNCHANGED <<pureVars, dirVars, outFile, builds, callVars, frameCount, localVars, live,
                   encVars, muxState, promVars, hist>>

\* ---------------------------------------------------------- buildTimelapse
JsThrow(msg) ==
    /\ settled' = "thrown" /\ errCode' = "JS_ERROR" /\ errMsg' = msg
    /\ pc' = "js_return"
    /\ UNCHANGED <<resolveCalls, rejectCalls>>

\* if (!opts.dir) throw ...; if (!sessionDir.exists) throw ...
BtEntry ==
    /\ pc = "bt_entry"
    /\ IF ~dirGiven THEN JsThrow("No session directory provided.")
       ELSE IF dirKind # "dir" THEN JsThrow("Session directory not found")
       ELSE /\ pc' = "bt_list"
            /\ UNCHANGED promVars
    /\ UNCHANGED <<pureVars, dirVars, outFile, builds, callVars, screenVars, localVars, live,
                   encVars, muxState, hist>>

\* list, filter, sort; throw on 0 frames; clamp fps; call the native build
BtList ==
    /\ pc = "bt_list"
    /\ IF ListFrames(files) = {}
       THEN /\ JsThrow("This session has 0 frames.")
            /\ UNCHANGED optsFps
       ELSE /\ optsFps' = Some(WrapperFps(optsFps))
            /\ pc' = "n_args"
            /\ UNCHANGED promVars
    /\ UNCHANGED <<pureVars, dirVars, outFile, builds, caller, fpsArg, dirGiven, screenVars,
                   localVars, live, encVars, muxState, hist>>


\* ------------------------------------------- TimelapseBuilderModule.build
\* val dir = options.getString("dir") ?: return promise.reject("E_ARGS", ...)
\* val reqFps = max(1, min(120, ...))
NArgs ==
    /\ pc = "n_args"
    /\ IF ~dirGiven
       THEN /\ Reject("E_ARGS", "Missing dir")
            /\ UNCHANGED reqFps
       ELSE /\ reqFps' = NativeFps(optsFps)
            /\ pc' = "n_dir"
            /\ UNCHANGED promVars
    /\ UNCHANGED <<pureVars, dirVars, outFile, builds, callVars, screenVars, frames, idx, codec,
                   inputSurface, muxer, muxerStarted, endOfStream, live, encVars,
                   muxState, hist>>

\* if (!folder.exists() || !folder.isDirectory) return promise.reject("E_DIR", ...)
\* !folder.exists() || !folder.isDirectory
FolderMissing == dirKind = "missing"
FolderNotUsable == dirKind = "missing" \/ dirKind # "dir"

NDir ==
    /\ pc = "n_dir"
    /\ IF FolderNotUsable
       THEN Reject("E_DIR", "Dir not found")
       ELSE /\ pc' = "n_list"
            /\ UNCHANGED promVars
    /\ UNCHANGED <<pureVars, dirVars, outFile, builds, callVars, screenVars, localVars, live,
                   encVars, muxState, hist>>

\* val frames = folder.listFiles { ... }?.sortedBy { it.name } ?: emptyList()
\* if (frames.isEmpty()) return promise.reject("E_EMPTY", "No frames")
NList ==
    /\ pc = "n_list"
    /\ frames' = SortedByName(ListFrames(files))
    /\ IF ListFrames(files) = {}
       THEN Reject("E_EMPTY", "No frames")
       ELSE /\ pc' = "n_first"
            /\ UNCHANGED promVars
    /\ UNCHANGED <<pureVars, dirVars, outFile, builds, callVars, screenVars, reqFps, idx, codec,
                   inputSurface, muxer, muxerStarted, endOfStream, live, encVars,
                   muxState, hist>>

\* BitmapFactory.decodeFile(path): null for a file that is no decodable image
Decodes(name) == name \notin corrupt

\* val first = BitmapFactory.decodeFile(frames.first().absolutePath)
\*   ?: return promise.reject("E_IMG", "Cannot decode first frame")
NFirst ==
    /\ pc = "n_first"
    /\ IF ~Decodes(frames[1])
       THEN Reject("E_IMG", "Cannot decode first frame")
       ELSE /\ pc' = "n_negotiate"
            /\ UNCHANGED promVars
    /\ UNCHANGED <<pureVars, dirVars, outFile, builds, callVars, screenVars, localVars, live,
                   encVars, muxState, hist>>

\* val neg = negotiateSizeFps(reqW, reqH, reqFps): no effect on the directory,
\* the promise or the platform handles
NNegotiate ==
    /\ pc = "n_negotiate"
    /\ pc' = "n_delete"
    /\ UNCHANGED <<pureVars, dirVars, outFile, builds, callVars, screenVars, localVars, live,
                   encVars, muxState, promVars, hist>>

\* val outFile = File(folder, outName); if (outFile.exists()) outFile.delete()
NDelete ==
    /\ pc = "n_delete"
    /\ outFile' = NoFile
    /\ pc' = "n_create"
    /\ UNCHANGED <<pureVars, dirVars, builds, callVars, screenVars, localVars, live,
                   encVars, muxState, promVars, hist>>

Acquire(kind) == [live EXCEPT ![kind] = @ + 1]
Made(kind) == [hist EXCEPT !.made = @ \cup {kind}]

\* codec = MediaCodec.createEncoderByType(mime); an IOException or
\* IllegalArgumentException passes the inner catch and reaches catch (Throwable)
NCreate ==
    /\ pc = "n_create"
    /\ \E ok \in BOOLEAN :
         IF ok
         THEN /\ codec' = "live" /\ live' = Acquire("codec") /\ hist' = Made("codec")
              /\ pc' = "n_configure"
              /\ UNCHANGED promVars
         ELSE /\ CatchThrowable("createEncoderByType failed")
              /\ UNCHANGED <<codec, live, hist>>
    /\ UNCHANGED <<pureVars, dirVars, outFile, builds, callVars, screenVars, reqFps, frames, idx,
                   inputSurface, muxer, muxerStarted, endOfStream, encVars, muxState>>

\* codec!!.configure(...) ; catch (ce: CodecException) { return
\* promise.reject("E_CODEC_CFG", msg, ce) }
NConfigure ==
    /\ pc = "n_configure"
    /\ \E ok \in BOOLEAN :
         IF ok
         THEN /\ pc' = "n_surface"
              /\ UNCHANGED promVars
         ELSE Reject("E_CODEC_CFG", "configure failed")
    /\ UNCHANGED <<pureVars, dirVars, outFile, builds, callVars, screenVars, localVars, live,
                   encVars, muxState, hist>>

\* inputSurface = codec!!.createInputSurface(); codec!!.start()
NSurface ==
    /\ pc = "n_surface"
    /\ \E r \in {"ok", "surfaceThrows", "startThrows"} :
         /\ IF r = "surfaceThrows"
            THEN UNCHANGED <<inputSurface, live, hist>>
            ELSE /\ inputSurface' = "live" /\ live' = Acquire("surface")
                 /\ hist' = Made("surface")
         /\ IF r = "ok"
            THEN /\ pc' = "n_muxer"
                 /\ UNCHANGED promVars
            ELSE CatchCodec
    /\ UNCHANGED <<pureVars, dirVars, outFile, builds, callVars, screenVars, reqFps, frames, idx,
                   codec, muxer, muxerStarted, endOfStream, encVars, muxState>>

\* muxer = MediaMuxer(outFile.absolutePath, MUXER_OUTPUT_MPEG_4): opens the
\* file for writing, creating it; var muxerStarted = false
NMuxer ==
    /\ pc = "n_muxer"
    /\ \E ok \in BOOLEAN :
         IF ok
         THEN /\ muxer' = "live" /\ live' = Acquire("muxer") /\ hist' = Made("muxer")
              /\ muxState' = "created"
              /\ outFile' = FileBy(builds + 1, FALSE)
              /\ muxerStarted' = FALSE
              /\ idx' = 1
              /\ pc' = "n_loop"
              /\ UNCHANGED promVars
         ELSE /\ CatchThrowable("MediaMuxer failed")
              /\ UNCHANGED <<muxer, live, hist, muxState, outFile, muxerStarted, idx>>
    /\ UNCHANGED <<pureVars, dirVars, builds, callVars, screenVars, reqFps, frames, codec,
                   inputSurface, endOfStream, encVars>>


\* ---------------------------------------------------------- the frame loop
\* val bmp = BitmapFactory.decodeFile(f.absolutePath) ?: continue
SkipNever(name) == FALSE
SkipFrame(name) == ~Decodes(name)

\* for (f in frames) { val bmp = decodeFile(f) ?: continue; lockCanvas; draw;
\* unlockCanvasAndPost; bmp.recycle(); drainEncoder(false) }
\* A posted frame enters the encoder, whose rate control may drop it; after
\* the last frame the loop falls through to drainEncoder(true).
NFrame ==
    /\ pc = "n_loop"
    /\ IF idx > Len(frames)
       THEN /\ pc' = "n_eos"
            /\ UNCHANGED <<idx, encQueue, encDropped, hist, promVars, endOfStream>>
       ELSE IF SkipFrame(frames[idx])
       THEN /\ hist' = [hist EXCEPT !.skipped = @ + 1]
            /\ idx' = idx + 1
            /\ pc' = "n_loop"
            /\ UNCHANGED <<encQueue, encDropped, promVars, endOfStream>>
       ELSE \E r \in {"posted", "dropped", "canvasThrows"} :
            IF r = "canvasThrows"
            THEN /\ CatchThrowable("lockCanvas failed")
                 /\ UNCHANGED <<idx, encQueue, encDropped, hist, endOfStream>>
            ELSE /\ hist' = [hist EXCEPT !.rendered = Append(@, frames[idx])]
                 /\ IF r = "posted"
                    THEN encQueue' = Append(encQueue, frames[idx]) /\ UNCHANGED encDropped
                    ELSE encDropped' = encDropped + 1 /\ UNCHANGED encQueue
                 /\ endOfStream' = FALSE
                 /\ pc' = "n_drain"
                 /\ UNCHANGED <<idx, promVars>>
    /\ UNCHANGED <<pureVars, dirVars, outFile, builds, callVars, screenVars, reqFps, frames, codec,
                   inputSurface, muxer, muxerStarted, live, eosSignalled, muxState>>

\* ------------------------------------------------------------ drainEncoder
\* if (endOfStream) codec!!.signalEndOfInputStream()
NEos ==
    /\ pc = "n_eos"
    /\ \E ok \in BOOLEAN :
         IF ok
         THEN /\ eosSignalled' = eosSignalled + 1
              /\ endOfStream' = TRUE
              /\ pc' = "n_drain"
              /\ UNCHANGED promVars
         ELSE /\ CatchCodec
              /\ UNCHANGED <<eosSignalled, endOfStream>>
    /\ UNCHANGED <<pureVars, dirVars, outFile, builds, callVars, screenVars, reqFps, frames, idx,
                   codec, inputSurface, muxer, muxerStarted, live, encQueue, encDropped,
                   muxState, hist>>

\* where a break out of the while (true) of drainEncoder leads: back into the
\* frame loop, or on to the teardown
DrainBreakToLoop ==
    pc' = "n_loop" /\ idx' = idx + 1
DrainBreak ==
    IF endOfStream
    THEN pc' = "n_teardown" /\ UNCHANGED idx
    ELSE pc' = "n_loop" /\ idx' = idx + 1

\* INFO_TRY_AGAIN_LATER -> { if (!endOfStream) break }
TryAgainBreaksAlways(eos) == TRUE
TryAgainBreaks(eos) == ~eos

DrainTryAgainSpin ==
    /\ pc = "n_drain"
    /\ UNCHANGED vars
DrainTryAgain ==
    /\ pc = "n_drain"
    /\ IF TryAgainBreaks(endOfStream) THEN DrainBreak ELSE UNCHANGED <<pc, idx>>
    /\ UNCHANGED <<pureVars, dirVars, outFile, builds, callVars, screenVars, reqFps, frames, codec,
                   inputSurface, muxer, muxerStarted, endOfStream, live, encVars,
                   muxState, promVars, hist>>

\* INFO_OUTPUT_FORMAT_CHANGED -> { if (muxerStarted) throw ...;
\* trackIndex = muxer!!.addTrack(...); muxer!!.start(); muxerStarted = true }
FormatChangedUnchecked(started) == FALSE
FormatChangedTwice(started) == started

DrainFormatChanged ==
    /\ pc = "n_drain"
    /\ IF FormatChangedTwice(muxerStarted)
       THEN /\ CatchThrowable("Format changed twice")
            /\ hist' = [hist EXCEPT !.fmt = @ + 1]
            /\ UNCHANGED <<muxerStarted, muxState>>
       ELSE \E ok \in BOOLEAN :
            /\ hist' = [hist EXCEPT !.fmt = @ + 1, !.addTrack = @ + 1,
                                    !.start = @ + (IF ok THEN 1 ELSE 0)]
            /\ IF ok
               THEN /\ muxerStarted' = TRUE /\ muxState' = "started"
                    /\ UNCHANGED <<pc, promVars>>
               ELSE /\ CatchThrowable("muxer start failed")
                    /\ UNCHANGED <<muxerStarted, muxState>>
    /\ UNCHANGED <<pureVars, dirVars, outFile, builds, callVars, screenVars, reqFps, frames, idx,
                   codec, inputSurface, muxer, endOfStream, live, encVars>>

\* 1 when the muxer is outside start()..stop() as a sample arrives, else 0
EarlyBuffer == IF muxState = "started" THEN 0 ELSE 1

\* if (bufferInfo.size > 0) { if (!muxerStarted) throw ...; writeSampleData }
WriteUnchecked(started) == FALSE
WriteBeforeStart(started) == ~started

\* else -> if (outIndex >= 0) { ... }: an output buffer. The encoder emits the
\* samples of the frames it holds in the order it received them; once end of
\* input is signalled the last sample, or an empty buffer after it, carries
\* BUFFER_FLAG_END_OF_STREAM.
DrainBuffer ==
    /\ pc = "n_drain"
    /\ \E b \in {"sample", "sampleEos", "eos", "null"} :
         /\ b = "sample" => encQueue # << >>
         /\ b = "sampleEos" => eosSignalled > 0 /\ Len(encQueue) = 1
         /\ b = "eos" => eosSignalled > 0 /\ encQueue = << >>
         /\ b = "null" => encQueue # << >> \/ eosSignalled > 0
         /\ IF b = "null"
            THEN /\ CatchThrowable("encoderOutputBuffer was null")
                 /\ UNCHANGED <<idx, encQueue, hist>>
            ELSE IF b = "eos"
            THEN /\ DrainBreak
                 /\ hist' = [hist EXCEPT !.eos = @ + 1]
                 /\ UNCHANGED <<encQueue, promVars>>
            ELSE IF WriteBeforeStart(muxerStarted)
            THEN /\ CatchThrowable("Muxer hasn't started")
                 /\ encQueue' = Tail(encQueue)
                 /\ hist' = [hist EXCEPT !.early = @ + EarlyBuffer]
                 /\ UNCHANGED idx
            ELSE \E ok \in BOOLEAN :
                 /\ encQueue' = Tail(encQueue)
                 /\ IF ok
                    THEN /\ hist' = [hist EXCEPT
                                !.written = Append(@, Head(encQueue)),
                                !.early = @ + EarlyBuffer,
                                !.badWrites = @ + EarlyBuffer,
                                !.eos = @ + (IF b = "sampleEos" THEN 1 ELSE 0)]
                         /\ IF b = "sampleEos" THEN DrainBreak ELSE UNCHANGED <<pc, idx>>
                         /\ UNCHANGED promVars
                    ELSE /\ CatchThrowable("writeSampleData failed")
                         /\ hist' = [hist EXCEPT !.early = @ + EarlyBuffer]
                         /\ UNCHANGED idx
    /\ UNCHANGED <<pureVars, dirVars, outFile, builds, callVars, screenVars, reqFps, frames, codec,
                   inputSurface, muxer, muxerStarted, endOfStream, live, eosSignalled,
                   encDropped, muxState>>

\* dequeueOutputBuffer / releaseOutputBuffer throws MediaCodec.CodecException
DrainFault ==
    /\ pc = "n_drain"
    /\ CatchCodec
    /\ UNCHANGED <<pureVars, dirVars, outFile, builds, callVars, screenVars, localVars, live,
                   encVars, muxState, hist>>

\* ---------------------------------------------------------------- teardown
\* try { muxer!!.stop() } ...; try { muxer!!.release() } ...;
\* try { codec!!.stop() } ...; try { codec!!.release() } ...;
\* try { inputSurface.release() } ...
\* stop() finalises the container of a started muxer that received a sample
\* and throws (swallowed) otherwise.
NTeardown ==
    /\ pc = "n_teardown"
    /\ outFile' = [outFile EXCEPT !.valid = (muxState = "started" /\ hist.written # << >>)]
    /\ muxState' = "released"
    /\ muxer' = "released" /\ codec' = "released" /\ inputSurface' = "released"
    /\ live' = [codec |-> live.codec - 1, surface |-> live.surface - 1,
                muxer |-> live.muxer - 1]
    /\ hist' = [hist EXCEPT !.rel = <<"muxer", "codec", "surface">>]
    /\ pc' = "n_resolve"
    /\ UNCHANGED <<pureVars, dirVars, builds, callVars, screenVars, reqFps, frames, idx,
                   muxerStarted, endOfStream, encVars, promVars>>

\* promise.resolve("file://${outFile.absolutePath}")
NResolve ==
    /\ pc = "n_resolve"
    /\ settled' = "resolved" /\ resolveCalls' = resolveCalls + 1
    /\ pc' = "settled"
    /\ UNCHANGED <<pureVars, dirVars, outFile, builds, callVars, screenVars, localVars, live,
                   encVars, muxState, errCode, errMsg, rejectCalls, hist>>

\* The call is over: the native promise is settled and, for the JavaScript
\* layers, buildTimelapse has returned or thrown and buildVideo has run its
\* catch and finally { setBuilding(false) }.
Return ==
    /\ pc \in {"settled", "js_return"}
    /\ building' = FALSE
    /\ builds' = builds + 1
    /\ pc' = "idle"
    /\ UNCHANGED <<pureVars, dirVars, outFile, callVars, frameCount, localVars, live, encVars,
                   muxState, promVars, hist>>

\* ------------------------------------------------------------ specification
Next ==
    \/ \E c \in Callers : \E fa \in FpsArgs(c) : \E dg \in BOOLEAN : Invoke(c, fa, dg)
    \/ BvEntry \/ BvDelete \/ BvCall
    \/ BtEntry \/ BtList
    \/ NArgs \/ NDir \/ NList \/ NFirst \/ NNegotiate \/ NDelete
    \/ NCreate \/ NConfigure \/ NSurface \/ NMuxer
    \/ NFrame \/ NEos
    \/ DrainTryAgain \/ DrainFormatChanged \/ DrainBuffer \/ DrainFault
    \/ NTeardown \/ NResolve
    \/ Return

Spec == Init /\ [][Next]_vars

\* The worker thread of a build runs each statement it has reached; the encoder
\* answers a poll that finds nothing with INFO_TRY_AGAIN_LATER and, end of
\* input once signalled, hands out its remaining buffers up to the one that
\* carries the end-of-stream flag.
BuildStep ==
    \/ NArgs \/ NDir \/ NList \/ NFirst \/ NNegotiate \/ NDelete
    \/ NCreate \/ NConfigure \/ NSurface \/ NMuxer
    \/ NFrame \/ NEos
    \/ DrainTryAgain \/ DrainBuffer
    \/ NTeardown \/ NResolve

\* the native method called directly, as buildTimelapse calls it
NextLive ==
    \/ \E fa \in FpsArgs("native") : \E dg \in BOOLEAN : Invoke("native", fa, dg)
    \/ BuildStep
    \/ DrainFormatChanged \/ DrainFault
    \/ Return

SpecLive == Init /\ [][NextLive]_vars /\ WF_vars(BuildStep)

\* =============================================== sizing, compositing, naming
buildVars == <<dirVars, outFile, builds, callVars, pc, screenVars, localVars,
               live, encVars, muxState, promVars, hist>>

\* ----------------------------------------------------------------- bitrate
\* A 64-bit product is kept as hi * 2^16 + lo with 0 <= lo < 2^16.
Two16 == 65536
IntMaxValue == 2147483647

\* w.toLong() * h.toLong() * fps, for w * h below 2^31
IntMul(w, h, fps) ==
    LET a    == w * h
        low  == (a % Two16) * fps
        hi   == ((a \div Two16) * fps + low \div Two16) % Two16
    IN  [hi |-> IF hi >= Two16 \div 2 THEN hi - Two16 ELSE hi, lo |-> low % Two16]
LongMul(w, h, fps) ==
    LET a    == w * h
        low  == (a % Two16) * fps
    IN  [hi |-> (a \div Two16) * fps + low \div Two16, lo |-> low % Two16]

\* (p * 0.06).roundToInt(): 0.06 * (hi * 2^16 + lo) = (196608 * hi + 3 * lo) / 50,
\* to the nearest integer, a tie going up, and no further than Int.MAX_VALUE
RoundToInt006(p) ==
    LET qh == p.hi \div 50
        rh == p.hi % 50
    IN  IF qh >= IntMaxValue \div (3 * Two16) THEN IntMaxValue
        ELSE 3 * Two16 * qh + RoundDiv(3 * Two16 * rh + 3 * p.lo, 50)

\* Int.coerceIn(minimumValue, maximumValue)
CoerceIn(x, lo, hi) == IF x < lo THEN lo ELSE IF x > hi THEN hi ELSE x

BitrateMin == 1500000
BitrateMax == 10000000
\* val target = (w.toLong() * h.toLong() * fps * 0.06).roundToInt()
\* val bitrate = target.coerceIn(1_500_000, 10_000_000)
Bitrate(w, h, fps) == CoerceIn(RoundToInt006(LongMul(w, h, fps)), BitrateMin, BitrateMax)

\* ------------------------------------------------------------- compositing
\* Fractions n/d with d > 0; the float arithmetic of the source is exact here.
RECURSIVE Gcd(_, _)
Gcd(a, b) == IF b = 0 THEN a ELSE Gcd(b, a % b)
\* n/d in lowest terms
Frac(n, d) == LET g == Gcd(n, d) IN [n |-> n \div g, d |-> d \div g]
MaxFrac(a, b) == IF a.n * b.d >= b.n * a.d THEN a ELSE b
MinFrac(a, b) == IF a.n * b.d <= b.n * a.d THEN a ELSE b

\* val scale = min(w.toFloat() / bmp.width, h.toFloat() / bmp.height)
ScaleToFill(w, h, bmpW, bmpH) == MaxFrac(Frac(w, bmpW), Frac(h, bmpH))
ScaleToFit(w, h, bmpW, bmpH) == MinFrac(Frac(w, bmpW), Frac(h, bmpH))

\* val dw = bmp.width * scale; val dh = bmp.height * scale
\* val left = (w - dw) / 2f; val top = (h - dh) / 2f
\* val dst = RectF(left, top, left + dw, top + dh)
\* The coordinates are counted in units of 1/unit pixel, unit = 2 * scale.d.
DstRect(w, h, bmpW, bmpH) ==
    LET scale == ScaleToFit(w, h, bmpW, bmpH)
        dw    == 2 * bmpW * scale.n
        dh    == 2 * bmpH * scale.n
        left  == (w * 2 * scale.d - dw) \div 2
        top   == (h * 2 * scale.d - dh) \div 2
    IN  [left |-> left, top |-> top, right |-> left + dw, bottom |-> top + dh,
         unit |-> 2 * scale.d]

\* canvas.drawColor(Color.BLACK, SRC); ...; canvas.drawBitmap(bmp, null, dst, paint)
\* } finally { surface.unlockCanvasAndPost(canvas) }
CanvasOps == <<"drawColor", "drawBitmap", "unlockCanvasAndPost">>

\* ------------------------------------------------------------------ naming
ZpadWidth == 5
\* String(n) for n >= 0
RECURSIVE DecDigits(_)
DecDigits(n) == IF n < 10 THEN <<Digit(n)>>
                ELSE Append(DecDigits(n \div 10), Digit(n % 10))
\* s.padStart(w, "0")
RECURSIVE PadStart(_, _)
PadStart(s, w) == IF Len(s) >= w THEN s ELSE PadStart(<<Digit(0)>> \o s, w)
\* const zpad = (n: number, w = 5) => String(n).padStart(w, "0")
Zpad(n) == PadStart(DecDigits(n), ZpadWidth)
\* `${dirNow}img_${zpad(idx)}.jpg`
FrameFileName(n) == ChImg \o Zpad(n) \o ChJpg

\* ------------------------------------------------------------------ inputs
MaxShots == 3          \* frames followed from the frame index a run starts at

SizeOptions  == {Absent, Some(320)}
FrameDims    == {8, 250, 640, 1080, 1920, 4000, 8000}
ReqFpsValues == {1, 15, 30, 120}
DeviceCaps   == {NoCaps} \cup
                {CapsOf(mw, mh, mf) : mw \in {320, 1280, 1920, 4096, 8192},
                                      mh \in {320, 720, 1088, 4096},
                                      mf \in {10, 15, 30, 120}}
BmpDims      == {<<100, 100>>, <<640, 480>>, <<480, 640>>, <<4000, 250>>}
\* frame indices a capture session passes through
StartIndices == {0, 8, 98, 998, 9998, 99997, 99998, 99999, 100008}

InitPure ==
    /\ BuildInit /\ dirKind = "missing"
    /\ cam = NoCam /\ bs = NoBs
    /\ \/ /\ capture = NoCapture
          /\ \E ow \in SizeOptions, oh \in SizeOptions, fw \in FrameDims,
                fh \in FrameDims, f \in ReqFpsValues, c \in DeviceCaps :
                sizing = [NoSizing EXCEPT !.pc = "infer", !.width = ow, !.height = oh,
                                          !.firstW = fw, !.firstH = fh,
                                          !.reqFps = f, !.caps = c]
       \/ /\ sizing = NoSizing
          /\ \E k \in StartIndices :
                capture = [NoCapture EXCEPT !.pc = "on", !.frameIndex = k, !.start = k]

\* val first = BitmapFactory.decodeFile(...); val reqW = first.width;
\* val reqH = first.height  -- the width / height options are not read
SzInfer ==
    /\ sizing.pc = "infer"
    /\ sizing' = [sizing EXCEPT !.reqW = sizing.firstW, !.reqH = sizing.firstH,
                                !.pc = "negotiate"]
    /\ UNCHANGED <<buildVars, capture, uiVars>>

\* val neg = negotiateSizeFps(reqW, reqH, reqFps)
SzNegotiate ==
    /\ sizing.pc = "negotiate"
    /\ sizing' = [sizing EXCEPT
                    !.neg = NegotiateSizeFps(sizing.reqW, sizing.reqH, sizing.reqFps,
                                             sizing.caps),
                    !.pc = "bitrate"]
    /\ UNCHANGED <<buildVars, capture, uiVars>>

\* val target = ...; val bitrate = target.coerceIn(...);
\* setInteger(MediaFormat.KEY_BIT_RATE, bitrate)
SzBitrate ==
    /\ sizing.pc = "bitrate"
    /\ sizing' = [sizing EXCEPT
                    !.bitrate = Bitrate(sizing.neg.width, sizing.neg.height, sizing.neg.fps),
                    !.pc = "composite"]
    /\ UNCHANGED <<buildVars, capture, uiVars>>

\* one pass of the frame loop body over a decoded bitmap, on the canvas of
\* the negotiated size
SzComposite ==
    /\ sizing.pc = "composite"
    /\ \E b \in BmpDims :
         sizing' = [sizing EXCEPT
                       !.bmpW = b[1], !.bmpH = b[2],
                       !.canvasOps = CanvasOps,
                       !.dst = DstRect(sizing.neg.width, sizing.neg.height, b[1], b[2]),
                       !.pc = "done"]
    /\ UNCHANGED <<buildVars, capture, uiVars>>

\* tick: const idx = frameIndexRef.current + 1; move the picture to
\* img_<zpad(idx)>.jpg; frameIndexRef.current = idx
CaptureFrame ==
    /\ capture.pc = "on"
    /\ Len(capture.written) < MaxShots
    /\ LET shot == capture.frameIndex + 1
       IN  capture' = [capture EXCEPT !.written = Append(@, FrameFileName(shot)),
                                      !.frameIndex = shot]
    /\ UNCHANGED <<buildVars, sizing, uiVars>>

NextPure == SzInfer \/ SzNegotiate \/ SzBitrate \/ SzComposite \/ CaptureFrame

SpecPure == InitPure /\ [][NextPure]_vars

\* ====================================================== the screens' handlers
\* JavaScript runs one handler at a time; an async function gives way at each
\* await and is resumed later, other handlers running in between.
TapIds == 1..MaxTaps
SetCall(c, k, call) == [c EXCEPT !.calls[k] = call]
Gone == [NoCall EXCEPT !.pc = "gone"]

\* startCapture from "if (runningRef.current) return" to "await ensureDir(dir)"
StartBody(c, k) ==
    IF c.runningRef
    THEN SetCall(c, k, Gone)
    ELSE SetCall([c EXCEPT !.frameIndexRef = 0], k, [NoCall EXCEPT !.pc = "dir"])

\* timerRef.current = setTimeout(tick, ...)
ArmTimer(c, k) ==
    SetCall([c EXCEPT !.timerRef = k], k, [NoCall EXCEPT !.pc = "timer"])

\* await camRef.current.takePictureAsync(...)
Shoot(c, k) ==
    SetCall(c, k, [NoCall EXCEPT !.pc = "shoot", !.reqDir = c.sessionDirRef])

\* tick up to its first await: if (!runningRef.current ...) return; a shot
\* when one is due, the timer again otherwise
Tick(c, k, due) ==
    IF ~c.runningRef THEN SetCall(c, k, Gone)
    ELSE IF due THEN Shoot(c, k) ELSE ArmTimer(c, k)

\* onPress={startCapture}, the button shown while !isRunning
CamTapStart ==
    /\ ~cam.isRunning /\ cam.taps < MaxTaps
    /\ LET k == cam.taps + 1
           c == [cam EXCEPT !.taps = k, !.sinceStop = FALSE]
       IN  cam' = IF c.granted THEN StartBody(c, k)
                  ELSE SetCall(c, k, [NoCall EXCEPT !.pc = "perm"])
    /\ UNCHANGED <<buildVars, sizing, capture, bs>>

\* const res = await requestPermission(); if (!res.granted) return
CamPermission(k) ==
    /\ cam.calls[k].pc = "perm"
    /\ \E g \in BOOLEAN :
         cam' = IF g THEN StartBody([cam EXCEPT !.granted = TRUE], k)
                ELSE SetCall(cam, k, Gone)
    /\ UNCHANGED <<buildVars, sizing, capture, bs>>

\* ensureDir(dir) is over: sessionDirRef.current = dir; runningRef.current =
\* true; setIsRunning(true); nextShotAtRef.current = Date.now(); tick()
CamDirReady(k) ==
    /\ cam.calls[k].pc = "dir"
    /\ \E ok \in BOOLEAN :
         cam' = IF ok
                THEN Tick([cam EXCEPT !.sessionDirRef = k, !.runningRef = TRUE,
                                      !.isRunning = TRUE], k, TRUE)
                ELSE SetCall(cam, k, Gone)
    /\ UNCHANGED <<buildVars, sizing, capture, bs>>

\* takePictureAsync is over: const dirNow = sessionDirRef.current;
\* if (pic?.uri && dirNow) { const idx = frameIndexRef.current + 1; await move }
\* else, or on an exception, nextShotAtRef += intervalMs and the timer is set
CamPictureTaken(k) ==
    /\ cam.calls[k].pc = "shoot"
    /\ \E ok \in BOOLEAN :
         /\ ok => Len(cam.written)
                     + Cardinality({j \in TapIds : cam.calls[j].pc = "move"}) < MaxPics
         /\ cam' = IF ok /\ cam.sessionDirRef # 0
                   THEN SetCall(cam, k, [cam.calls[k] EXCEPT
                                            !.pc = "move", !.dir = cam.sessionDirRef,
                                            !.shot = cam.frameIndexRef + 1])
                   ELSE ArmTimer(cam, k)
    /\ UNCHANGED <<buildVars, sizing, capture, bs>>

\* the move is over: frameIndexRef.current = idx; ...; then the timer is set
CamMoved(k) ==
    /\ cam.calls[k].pc = "move"
    /\ \E ok \in BOOLEAN :
         cam' = IF ok
                THEN ArmTimer([cam EXCEPT
                        !.frameIndexRef = cam.calls[k].shot,
                        !.written = Append(@, [dir |-> cam.calls[k].dir,
                                               shot |-> cam.calls[k].shot,
                                               reqDir |-> cam.calls[k].reqDir,
                                               stopped |-> cam.sinceStop])], k)
                ELSE ArmTimer(cam, k)
    /\ UNCHANGED <<buildVars, sizing, capture, bs>>

\* the timer of a loop fires: tick()
CamTimerFires(k) ==
    /\ cam.calls[k].pc = "timer"
    /\ \E due \in BOOLEAN : cam' = Tick(cam, k, due)
    /\ UNCHANGED <<buildVars, sizing, capture, bs>>

\* onPress={stopCapture}, the button shown while isRunning:
\* runningRef.current = false; clearTimeout(timerRef.current); ...
CamTapStop ==
    /\ cam.isRunning
    /\ LET t == cam.timerRef
           c == [cam EXCEPT !.runningRef = FALSE, !.timerRef = 0,
                            !.isRunning = FALSE, !.sinceStop = TRUE]
       IN  cam' = IF t # 0 /\ cam.calls[t].pc = "timer" THEN SetCall(c, t, Gone) ELSE c
    /\ UNCHANGED <<buildVars, sizing, capture, bs>>

\* ------------------------------------------------------------ build screen
\* what the Build button goes by: disabled={building} of the last render
TapEnabled == ~bs.disabled

\* onPress={buildVideo}: up to "await new File(outputUri).delete()"
BsTap ==
    /\ TapEnabled /\ bs.taps < MaxTaps
    /\ LET k == bs.taps + 1
       IN  bs' = [bs EXCEPT !.taps = k,
                            !.calls[k] = IF bs.frameCount = 0 THEN "alert" ELSE "delete"]
    /\ UNCHANGED <<buildVars, sizing, capture, cam>>

\* setBuilding(true); await buildTimelapse(...): the native build is called,
\* or buildTimelapse throws first and finally { setBuilding(false) } runs
BsCall(k) ==
    /\ bs.calls[k] = "delete"
    /\ \E ok \in BOOLEAN :
         bs' = IF ok THEN [bs EXCEPT !.building = TRUE, !.calls[k] = "native"]
               ELSE [bs EXCEPT !.building = FALSE, !.calls[k] = "done"]
    /\ UNCHANGED <<buildVars, sizing, capture, cam>>

\* the native promise settles: ...; finally { setBuilding(false) }
BsSettled(k) ==
    /\ bs.calls[k] = "native"
    /\ bs' = [bs EXCEPT !.building = FALSE, !.calls[k] = "done"]
    /\ UNCHANGED <<buildVars, sizing, capture, cam>>

\* React renders the screen with the current state
BsRender ==
    /\ bs.disabled # bs.building
    /\ bs' = [bs EXCEPT !.disabled = bs.building]
    /\ UNCHANGED <<buildVars, sizing, capture, cam>>

FrameCounts == {0, 2}

InitUi ==
    /\ BuildInit /\ dirKind = "missing"
    /\ sizing = NoSizing /\ capture = NoCapture
    /\ \E g \in BOOLEAN : cam = [NoCam EXCEPT !.granted = g]
    /\ \E n \in FrameCounts : bs = [NoBs EXCEPT !.frameCount = n]

NextUi ==
    \/ CamTapStart \/ CamTapStop
    \/ \E k \in TapIds :
          CamPermission(k) \/ CamDirReady(k) \/ CamPictureTaken(k)
             \/ CamMoved(k) \/ CamTimerFires(k)
    \/ BsTap \/ BsRender
    \/ \E k \in TapIds : BsCall(k) \/ BsSettled(k)

SpecUi == InitUi /\ [][NextUi]_vars


\* ================================================================== claims
\* The frame files of the directory, by the naming convention.
MatchingFrames == {n \in files : StartsWith(n, ChImg) /\ EndsWith(n, ChJpg)}
\* The native promise has been settled.
NativeSettled == settled \in {"resolved", "rejected"}
\* The call has produced its result and not yet handed control back.
CallOver == pc \in {"settled", "js_return"}
\* The file at the output path was not written by the call in progress.
Stale == outFile.exists /\ outFile.by <= builds
NoSideEffects == hist.made = {} /\ outFile = hist.outAtInvoke
Increasing(q) == \A i, j \in 1..Len(q) : i < j => LexLess(q[i], q[j])

\* C1: when the promise of a build is settled, on success or on any failure,
\* every encoder, input surface and muxer the build acquired has been
\* released, so no handle is live once a build has settled.
C1_ReleasedWhenSettled ==
    NativeSettled => live.codec = 0 /\ live.surface = 0 /\ live.muxer = 0

\* C2: after a build that settles with an error no file exists at the output
\* path, neither a stale one nor a partial one.
C2_NoFileAfterError ==
    (settled = "rejected" /\ dirGiven) => ~outFile.exists

\* C3: a stale output file is deleted before the build enumerates frames,
\* decodes the first frame or negotiates: once the native build is past its
\* directory check, or has settled, no file of an earlier build is left.
C3_StaleDeletedFirst ==
    (dirGiven /\ pc \in {"n_first", "n_negotiate", "settled"}) => ~Stale

\* C4: a build that resolves has rendered exactly the matching frames minus
\* those whose decode failed in the loop, and with an encoder that emitted a
\* sample for every frame it was given, that many samples were written.
C4_FrameCount ==
    settled = "resolved" =>
        /\ hist.skipped = Cardinality(corrupt)
        /\ Len(hist.rendered) = Cardinality(MatchingFrames) - hist.skipped
        /\ encDropped = 0 => Len(hist.written) = Len(hist.rendered)

C4_Witness ==
    /\ settled = "resolved" /\ encDropped = 0
    /\ hist.skipped = 1 /\ Len(hist.rendered) = 1 /\ Len(hist.written) = 1

\* C5: frames reach the encoder, and samples reach the muxer, in the
\* lexicographic order of their file names.
C5_LexOrder == Increasing(hist.rendered) /\ Increasing(hist.written)

C5_Witness == hist.rendered = <<N10, N2>> /\ hist.written = <<N10, N2>>

\* C6: in one build addTrack and start are called at most once each, by the
\* first format-changed event; a second format-changed event adds no track
\* and fails the build with "Format changed twice".
C6_TrackAddedOnce ==
    /\ hist.addTrack <= 1 /\ hist.start <= hist.addTrack
    /\ hist.addTrack = 1 => hist.fmt >= 1
    /\ hist.fmt >= 2 => /\ settled = "rejected"
                        /\ errCode = "E_EXC" /\ errMsg = "Format changed twice"

C6_Witness == hist.fmt = 2 /\ hist.addTrack = 1 /\ hist.start = 1 /\ pc = "settled"

\* C7: writeSampleData is called only between muxer.start() and muxer.stop();
\* a non-empty buffer that arrives before the muxer was started fails the
\* build with "Muxer hasn't started" and is not written.
C7_WriteWindow ==
    /\ hist.badWrites = 0
    /\ hist.early > 0 => /\ settled = "rejected"
                         /\ errCode = "E_EXC" /\ errMsg = "Muxer hasn't started"
                         /\ hist.written = << >>

C7_Witness == hist.early = 1 /\ pc = "settled" /\ hist.rendered # << >>

\* C8: whatever layer the request enters at, the frame rate handed to the
\* negotiator is the caller's fps clamped to [1,120].
CallerFps == IF caller = "wrapper" THEN JsFloor(Val(fpsArg)) ELSE Val(fpsArg)
C8_FpsClamped ==
    (pc = "n_negotiate" /\ fpsArg # Absent) => reqFps = ClampFps(CallerFps)

\* C9: a build on a path that is no directory fails with the directory error
\* and a build on a directory without matching frames fails with the no-frames
\* error, and neither creates a handle nor touches the output file.
DirectoryNotFound ==
    \/ settled = "rejected" /\ errCode = "E_DIR"
    \/ settled = "thrown" /\ errMsg = "Session directory not found"
NoFramesFound ==
    \/ settled = "rejected" /\ errCode = "E_EMPTY"
    \/ settled \in {"thrown", "alert"} /\ errMsg = "This session has 0 frames."
C9_FrameSourceErrors ==
    (CallOver /\ dirGiven) =>
        /\ dirKind # "dir" =>
              NoSideEffects /\ (caller # "screen" => DirectoryNotFound)
        /\ (dirKind = "dir" /\ MatchingFrames = {}) =>
              NoSideEffects /\ NoFramesFound

C9_Witness ==
    /\ pc = "settled" /\ errCode = "E_EMPTY" /\ files # {}
    /\ outFile.exists /\ live.codec = 0

\* C10: an undecodable first frame fails the build with E_IMG before any
\* encoder exists; an undecodable frame met in the loop is skipped, is not
\* rendered, and the build goes on and can resolve.
C10_FirstFatalRestSkipped ==
    /\ (frames # << >> /\ pc # "n_first" /\ frames[1] \in corrupt) =>
          settled = "rejected" /\ errCode = "E_IMG" /\ hist.made = {}
    /\ errCode = "E_IMG" => frames[1] \in corrupt
    /\ \A i \in 1..Len(hist.rendered) : hist.rendered[i] \notin corrupt
    /\ pc \in {"n_loop", "n_drain"} =>
          hist.skipped = Cardinality({k \in 1..Min2(idx, Len(frames)) :
                                         k < idx /\ frames[k] \in corrupt})

C10_Witness ==
    /\ settled = "resolved" /\ hist.skipped >= 1
    /\ hist.rendered # << >> /\ outFile.valid


\* ----------------------------------------------------------- C11 .. C15, C18
\* negotiateSizeFps has returned
NegDone == sizing.pc \in {"bitrate", "composite", "done"}
FpsLadder == {sizing.reqFps, 30, 24, 15}

\* C11 (as stated): the negotiated width and height are each at most the
\* requested width and height, and the frame rate is one of requested, 30,
\* 24, 15.
C11_NotLargerThanRequest ==
    NegDone => /\ sizing.neg.width <= sizing.reqW
               /\ sizing.neg.height <= sizing.reqH
               /\ sizing.neg.fps \in FpsLadder

\* C11 (amended): the negotiated width and height are each at most the larger
\* of the requested value and the 16-pixel floor, and the frame rate is one of
\* requested, 30, 24, 15.
C11_NotLargerThanFlooredRequest ==
    NegDone => /\ sizing.neg.width <= Max2(16, sizing.reqW)
               /\ sizing.neg.height <= Max2(16, sizing.reqH)
               /\ sizing.neg.fps \in FpsLadder

C11_Witness ==
    /\ NegDone /\ sizing.neg.path = "shrink"
    /\ sizing.neg.width < sizing.reqW /\ sizing.neg.height < sizing.reqH
    /\ sizing.neg.fps = 15 /\ sizing.reqFps = 120

\* C12: with a capability query at hand, whatever the negotiator returns
\* before its last resort was declared supported as returned, width for
\* width and height for height, for portrait requests too.
C12_ReturnedIsSupported ==
    (NegDone /\ sizing.caps.query /\ sizing.neg.path # "lastResort") =>
        Supported(sizing.caps, sizing.neg.width, sizing.neg.height, sizing.neg.fps)

\* C13: a request that carries both width and height has them as the
\* candidate size; the first frame's size is the candidate only without them.
C13_ExplicitSizeUsed ==
    (sizing.pc \in {"negotiate", "bitrate", "composite", "done"}
        /\ sizing.width # Absent /\ sizing.height # Absent) =>
        sizing.reqW = Val(sizing.width) /\ sizing.reqH = Val(sizing.height)

\* C14: on every return path the negotiated width and height are multiples of
\* 16 and at least 16.
C14_Aligned16 ==
    NegDone => /\ sizing.neg.width % 16 = 0 /\ sizing.neg.width >= 16
               /\ sizing.neg.height % 16 = 0 /\ sizing.neg.height >= 16

C14_Witness ==
    /\ NegDone /\ sizing.neg.path = "lastResort"
    /\ sizing.neg.height = 16 /\ sizing.neg.width >= 16 /\ sizing.reqW = 4000

\* C15: every frame file the capture loop writes is named img_ + exactly five
\* digits + .jpg, and the names sort in the order the frames were captured.
FiveDigitName(n) ==
    /\ Len(n) = Len(ChImg) + 5 + Len(ChJpg)
    /\ StartsWith(n, ChImg) /\ EndsWith(n, ChJpg)
    /\ \A i \in (Len(ChImg) + 1)..(Len(ChImg) + 5) : n[i] \in Digit(0)..Digit(9)
C15_NamesSortAsCaptured ==
    /\ \A i \in 1..Len(capture.written) : FiveDigitName(capture.written[i])
    /\ Increasing(capture.written)

\* C18: the rectangle a frame is drawn into keeps the image's aspect ratio,
\* lies inside the canvas, spans the canvas in one dimension at least, is
\* centred, and the canvas is filled before the image is drawn.
C18_Letterbox ==
    sizing.pc = "done" =>
        LET d  == sizing.dst
            cw == sizing.neg.width * d.unit
            ch == sizing.neg.height * d.unit
        IN  /\ (d.right - d.left) * sizing.bmpH = (d.bottom - d.top) * sizing.bmpW
            /\ 0 <= d.left /\ d.right <= cw /\ 0 <= d.top /\ d.bottom <= ch
            /\ d.right - d.left = cw \/ d.bottom - d.top = ch
            /\ d.left = cw - d.right /\ d.top = ch - d.bottom
            /\ \E i, j \in 1..Len(sizing.canvasOps) :
                  /\ i < j
                  /\ sizing.canvasOps[i] = "drawColor"
                  /\ sizing.canvasOps[j] = "drawBitmap"

C18_Witness ==
    /\ sizing.pc = "done"
    /\ sizing.dst.left > 0 /\ sizing.dst.top = 0
    /\ sizing.bmpW = 480 /\ sizing.neg.width > sizing.neg.height

\* ---------------------------------------------------------------- C16, C17
\* C16: a build resolves only if during it the output track was added and the
\* muxer started, and the end-of-stream marker was seen in the encoder output.
C16_ResolveNeedsTrackAndEos ==
    settled = "resolved" => muxerStarted /\ hist.addTrack >= 1 /\ hist.eos >= 1

\* C17: a settled build that acquired the encoder, the input surface and the
\* muxer has released them in the order encoder, input surface, muxer, on
\* success and on failure.
C17_ReleaseOrder ==
    (NativeSettled /\ hist.made = {"codec", "surface", "muxer"}) =>
        hist.rel = <<"codec", "surface", "muxer">>

\* --------------------------------------------------------------------- C19
\* The state of the build in progress: Unconfigured up to codec.configure,
\* Configured up to codec.start, Encoding in the frame loop, Draining from
\* drainEncoder(true) to the end of the teardown, Finished from there on,
\* Failed once the promise is rejected; None when no native build runs.
Phase ==
    IF settled = "rejected" THEN "Failed"
    ELSE IF settled = "resolved" \/ pc = "n_resolve" THEN "Finished"
    ELSE IF pc \in {"n_args", "n_dir", "n_list", "n_first", "n_negotiate",
                    "n_delete", "n_create", "n_configure"} THEN "Unconfigured"
    ELSE IF pc = "n_surface" THEN "Configured"
    ELSE IF pc \in {"n_muxer", "n_loop"} \/ (pc = "n_drain" /\ ~endOfStream)
         THEN "Encoding"
    ELSE IF pc \in {"n_eos", "n_teardown"} \/ (pc = "n_drain" /\ endOfStream)
         THEN "Draining"
    ELSE "None"

PhaseOrder == {<<"None", "Unconfigured">>, <<"Unconfigured", "Configured">>,
               <<"Configured", "Encoding">>, <<"Encoding", "Draining">>,
               <<"Draining", "Finished">>}
Terminal == {"Finished", "Failed"}
MediaState == <<codec, inputSurface, muxer, muxerStarted, muxState, live,
                encVars, hist>>

\* C19: a build goes through Unconfigured, Configured, Encoding, Draining,
\* Finished in that order, none skipped or revisited; Failed is entered only
\* from a state that is not terminal; after Finished or Failed nothing more is
\* done to the encoder, the surface or the muxer.
C19_PhaseOrder ==
    [][pc # "idle" =>
        /\ Phase' = Phase \/ <<Phase, Phase'>> \in PhaseOrder
              \/ (Phase' = "Failed" /\ Phase \notin Terminal \cup {"None"})
        /\ Phase \in Terminal => Phase' = Phase /\ UNCHANGED MediaState]_vars

C19_Witness ==
    /\ Phase = "Finished" /\ settled = "resolved"
    /\ Len(hist.written) >= 1 /\ hist.rel # << >>

\* --------------------------------------------------------------------- C20
\* C20: end of input is signalled at most once, and only after the frame loop
\* is through every frame; the drain that follows ends only on a buffer with
\* the end-of-stream flag, so at the teardown end of input was signalled once,
\* the flag was seen, and every sample the encoder emitted is in the muxer.
C20_EosDrain ==
    /\ eosSignalled <= 1
    /\ eosSignalled = 1 =>
          /\ idx > Len(frames)
          /\ Len(hist.rendered) + hist.skipped = Len(frames)
    /\ (pc \in {"n_teardown", "n_resolve"} \/ settled = "resolved") =>
          /\ eosSignalled = 1 /\ hist.eos = 1
          /\ encQueue = << >>
          /\ Len(hist.written) + encDropped = Len(hist.rendered)

C20_Witness ==
    /\ pc = "n_teardown" /\ muxState = "started"
    /\ Len(hist.written) = 2 /\ hist.skipped = 0 /\ hist.eos = 1

\* ---------------------------------------------------------------- C21, C22
\* the candidate size rounded down to a multiple of 16, 16 at least
Rounded(x) == Mul16(Max2(16, x))
\* the frame rates in priority order, and the place of a rate in that order
FpsPriority == <<sizing.reqFps, 30, 24, 15>>
PriorityOf(f) == CHOOSE i \in 1..4 : FpsPriority[i] = f /\ \A j \in 1..(i - 1) : FpsPriority[j] # f
RoundedSupportedAt(f) ==
    Supported(sizing.caps, Rounded(sizing.reqW), Rounded(sizing.reqH), f)

\* C21: with a capability query, when the rounded candidate size is supported
\* at some rate of [requested, 30, 24, 15], the negotiator returns that very
\* size and the first rate of the list, in its order, that is supported.
C21_FastPathFirstRate ==
    (NegDone /\ sizing.caps.query /\ \E f \in FpsLadder : RoundedSupportedAt(f)) =>
        /\ sizing.neg.width = Rounded(sizing.reqW)
        /\ sizing.neg.height = Rounded(sizing.reqH)
        /\ sizing.neg.fps \in FpsLadder /\ RoundedSupportedAt(sizing.neg.fps)
        /\ \A g \in FpsLadder :
              RoundedSupportedAt(g) => PriorityOf(sizing.neg.fps) <= PriorityOf(g)

C21_Witness ==
    /\ NegDone /\ sizing.neg.path = "fast"
    /\ sizing.reqFps = 120 /\ sizing.neg.fps = 30 /\ sizing.caps.maxFps = 30
    /\ sizing.reqW = 1080 /\ sizing.neg.width = 1072

\* the long edge of the candidate after the cap to 1920
CappedLong ==
    LET c == CapTo1080(Rounded(sizing.reqW), Rounded(sizing.reqH))
    IN  Max2(Rounded(c.w), Rounded(c.h))

\* C22: the shrink loop makes the long edge strictly smaller at each turn, and
\* when nothing was supported and the capped candidate had a long edge of 640
\* or more, the last resort is returned at 15 fps with a long edge of at
\* least 640.
C22_LastResort640 ==
    (NegDone /\ sizing.caps.query /\ CappedLong >= 640) =>
        /\ Mul16(Shrink09(CappedLong)) < CappedLong
        /\ sizing.neg.path = "lastResort" =>
              /\ sizing.neg.fps = 15
              /\ Max2(sizing.neg.width, sizing.neg.height) >= 640

\* --------------------------------------------------------------------- C23
BitrateSet == sizing.pc \in {"composite", "done"}
\* width * height * fps is beyond this many pixels per second: 0.06 of it is
\* above every upper bound
HugeRate == sizing.neg.width * sizing.neg.height > 200000000 \div sizing.neg.fps
ClampedRate ==
    IF HugeRate THEN BitrateMax
    ELSE Max2(BitrateMin, Min2(BitrateMax,
              RoundDiv(3 * sizing.neg.width * sizing.neg.height * sizing.neg.fps, 50)))

\* C23: the bitrate set on the encoder is width * height * fps * 0.06 clamped
\* to fixed bounds: it lies between 1.5 Mbps and the 12 Mbps of the spec, and
\* a product beyond the 32-bit range gives the upper bound, not a wrapped value.
C23_BitrateClamped ==
    BitrateSet =>
        /\ sizing.bitrate = ClampedRate
        /\ sizing.bitrate >= 1500000 /\ sizing.bitrate <= 12000000

C23_Witness ==
    /\ BitrateSet
    /\ sizing.neg.width * sizing.neg.height > IntMaxValue \div sizing.neg.fps
    /\ sizing.bitrate = BitrateMax

\* --------------------------------------------------------------------- C25
\* positions inside the native build, before it settles
NativeRunning ==
    pc \in {"n_args", "n_dir", "n_list", "n_first", "n_negotiate", "n_delete",
            "n_create", "n_configure", "n_surface", "n_muxer", "n_loop",
            "n_drain", "n_eos", "n_teardown", "n_resolve"}

\* C25: a native build settles its promise exactly once: resolve and reject
\* are called once between them, none while the build runs and exactly one
\* by the time it has returned.
C25_SettledOnce ==
    /\ resolveCalls + rejectCalls <= 1
    /\ NativeRunning => resolveCalls + rejectCalls = 0 /\ ~NativeSettled
    /\ pc = "settled" => resolveCalls + rejectCalls = 1
    /\ settled = "resolved" <=> resolveCalls = 1
    /\ settled = "rejected" <=> rejectCalls = 1

C25_Witness ==
    /\ pc = "settled" /\ settled = "rejected" /\ errCode = "E_EXC"
    /\ muxerStarted /\ rejectCalls = 1 /\ resolveCalls = 0

\* --------------------------------------------------------------------- C24
\* C24: every native build that is entered settles its promise in the end,
\* the encoder answering each poll and emitting end of stream once asked to.
C24_EventuallySettles == (pc = "n_args") ~> NativeSettled

C24_Witness ==
    /\ settled = "resolved" /\ Len(frames) = 2
    /\ Len(hist.rendered) = 2 /\ encDropped = 1 /\ hist.eos = 1

\* ---------------------------------------------------------- C26, C27, C28
\* the capture loops with a tick in flight or a timer pending
ActiveLoops == {k \in TapIds : cam.calls[k].pc \in {"shoot", "move", "timer"}}

\* C26: at most one capture loop is active at a time, whatever the order of
\* Start taps, Stop taps and the asynchronous steps.
C26_OneCaptureLoop == Cardinality(ActiveLoops) <= 1

\* the frame numbers written into session directory d, in the order written
RECURSIVE ShotsInto(_, _)
ShotsInto(q, d) ==
    IF q = << >> THEN << >>
    ELSE IF Head(q).dir = d THEN <<Head(q).shot>> \o ShotsInto(Tail(q), d)
    ELSE ShotsInto(Tail(q), d)

\* C27: in each session directory the frames are numbered 1, 2, 3, ... with no
\* number twice and none left out, each file is written into the session its
\* picture was requested in, and no file is written once stopCapture has run
\* until Start is tapped again.
C27_SessionFrames ==
    /\ \A d \in TapIds :
          LET q == ShotsInto(cam.written, d) IN \A i \in 1..Len(q) : q[i] = i
    /\ \A i \in 1..Len(cam.written) :
          /\ cam.written[i].dir = cam.written[i].reqDir
          /\ ~cam.written[i].stopped

\* C28: at most one native build called from the build screen is in flight
\* at a time, whatever the sequence of Build taps.
C28_OneBuildInFlight ==
    Cardinality({k \in TapIds : bs.calls[k] = "native"}) <= 1

====
